---- MODULE Spec2Model ----
(***************************************************************************)
(* Stroke capture and asynchronous classification pipeline of              *)
(* TeXMatchWindow (src/window.rs): the drag handlers and `clear` on the UI *)
(* thread, the classifier thread started by `setup_classifier`, the        *)
(* request channel (std::sync::mpsc, unbounded), the result channel        *)
(* (async_channel::bounded(1)) and the result loop that fills `symbols`.   *)
(***************************************************************************)
EXTENDS Integers, Sequences, FiniteSets, TLC

(* ------------------------------ bounds --------------------------------- *)
\* drag-end events handled in one behaviour
MaxDragEnds == 2
\* points recorded (by drag-begin and drag-update) in one behaviour
MaxPoints == 4
\* size of the symbol catalogue returned by detexify::iter_symbols()
NumSymbols == 27

(* -------------------------- program constants -------------------------- *)
\* `.take(25)` in the result loop
DisplayLimit == 25
\* variant: a result channel of two slots
ResultCap_two == 1 + 1

\* async_channel::bounded(1)
ResultCap == 1

(* ------------------------------ inputs --------------------------------- *)
Point(px, py) == [x |-> px, y |-> py]
\* coordinates delivered by drag-begin
AnchorSet == {Point(0, 0), Point(10, 10)}
\* offsets delivered by drag-update (relative to the start of the gesture)
DeltaSet == {Point(3, 3), Point(5, 5)}

\* Option<T>
None == [some |-> FALSE]
Some(v) == [some |-> TRUE, value |-> v]

\* a ranked Vec<Score> of n entries whose ids start at `first`
Ranked(first, n) ==
    [i \in 1..n |-> [id |-> ((first + i - 2) % NumSymbols) + 1, score |-> n - i]]

\* what Classifier::classify may answer: None, or Some(ranked scores)
ClassifierOutputs == {None, Some(Ranked(1, 2)), Some(Ranked(3, DisplayLimit + 1))}

(* ------------------------------ state ---------------------------------- *)
VARIABLES
    strokes,          \* imp.strokes: Vec<Stroke>
    current_stroke,   \* imp.current_stroke: Stroke
    surface,          \* imp.surface is Some(..)
    symbols,          \* imp.symbols: the ListStore shown by symbol_list
    painted,          \* draw operations issued on the cairo context by the step just taken
    capture,          \* GestureDrag: "Idle" or "Capturing"
    alive,            \* the window (and so imp.sender) still exists
    aborted,          \* a handler panicked on the UI thread
    req_chan,         \* requests sent on req_tx and not yet received
    res_chan,         \* results sent on res_tx and not yet received
    res_rx,           \* result loop: "awaiting", "ended", "dropped"
    worker_pc,        \* "recv", "classify", "send", "exited", "panicked"
    worker_req,       \* the request the worker holds (`strokes` of the loop body)
    classifications,  \* the result the worker is about to send
    points,           \* history: points recorded by drag-begin and drag-update
    drag_ends,        \* history: drag-end events handled
    sent_log,         \* history: stroke lists passed to sender.send, in order
    recv_log,         \* history: ids of the requests the worker received, in order
    out_log,          \* history: ids of the results the worker sent, in order
    shown_log,        \* history: ids of the results the result loop received
    last_result       \* history: the ranked result received last by the result loop

vars == <<strokes, current_stroke, surface, symbols, painted, capture, alive,
          aborted, req_chan, res_chan, res_rx, worker_pc, worker_req,
          classifications, points, drag_ends, sent_log, recv_log, out_log, shown_log,
          last_result>>

drawing   == <<strokes, current_stroke>>
worker    == <<worker_pc, worker_req, classifications>>
history   == <<points, drag_ends, sent_log, recv_log, out_log, shown_log, last_result>>
lifecycle == <<alive, aborted>>

(* ----------------------------- helpers --------------------------------- *)
Min(a, b) == IF a <= b THEN a ELSE b

\* Iterator::take(n)
Take(s, n) == SubSeq(s, 1, Min(n, Len(s)))

\* Stroke::add_point
add_point(stroke, p) == Append(stroke, p)

\* detexify::iter_symbols().map(|sym| sym.id())
iter_symbols == [i \in 1..NumSymbols |-> i]

\* the window object can still run handlers
WindowAlive == alive /\ ~aborted

(* --------------------------- initial state ----------------------------- *)
\* TeXMatchWindow::default() followed by constructed(): setup_symbol_list
\* fills the list store with the whole catalogue, setup_classifier creates
\* the two channels and starts the worker and the result loop.
Init ==
    /\ strokes = <<>>
    /\ current_stroke = <<>>
    /\ surface = FALSE
    /\ symbols = iter_symbols
    /\ painted = <<>>
    /\ capture = "Idle"
    /\ alive = TRUE
    /\ aborted = FALSE
    /\ req_chan = <<>>
    /\ res_chan = <<>>
    /\ res_rx = "awaiting"
    /\ worker_pc = "recv"
    /\ worker_req = None
    /\ classifications = None
    /\ points = 0
    /\ drag_ends = 0
    /\ sent_log = <<>>
    /\ recv_log = <<>>
    /\ out_log = <<>>
    /\ shown_log = <<>>
    /\ last_result = None

(* ----------------------------- UI thread ------------------------------- *)
\* a step that does not run the draw func issues no draw operation
NoPaint == painted' = <<>>

\* create_surface: imp.surface.replace(Some(surface))
create_surface == surface' = TRUE

\* connect_resize handler
resize ==
    /\ WindowAlive
    /\ create_surface
    /\ NoPaint
    /\ UNCHANGED <<drawing, symbols, capture, lifecycle, req_chan,
                   res_chan, res_rx, worker, history>>

\* connect_drag_begin handler
drag_begin(p) ==
    /\ WindowAlive
    /\ capture = "Idle"
    /\ drag_ends < MaxDragEnds
    /\ points < MaxPoints
    /\ capture' = "Capturing"
    /\ current_stroke' = add_point(current_stroke, p)
    /\ points' = points + 1
    /\ NoPaint
    /\ UNCHANGED <<strokes, surface, symbols, lifecycle, req_chan,
                   res_chan, res_rx, worker, drag_ends, sent_log, recv_log,
                   out_log, shown_log, last_result>>

\* variant: the point added last
last_point(stroke) == stroke[Len(stroke)]

\* stroke.points().next().copied().unwrap() on a stroke that has a point
first_point(stroke) == Head(stroke)

\* connect_drag_update handler: the first point of current_stroke is
\* unwrapped; on an empty stroke the unwrap panics.
drag_update(d) ==
    /\ WindowAlive
    /\ capture = "Capturing"
    /\ points < MaxPoints
    /\ IF current_stroke = <<>>
          THEN /\ aborted' = TRUE
               /\ UNCHANGED <<current_stroke, points>>
          ELSE /\ LET prev == first_point(current_stroke)
                  IN current_stroke' =
                       add_point(current_stroke, Point(prev.x + d.x, prev.y + d.y))
               /\ points' = points + 1
               /\ UNCHANGED aborted
    /\ NoPaint
    /\ UNCHANGED <<strokes, surface, symbols, capture, alive, req_chan,
                   res_chan, res_rx, worker, drag_ends, sent_log, recv_log,
                   out_log, shown_log, last_result>>

\* variant: only the stroke just completed is sent
classify_newest_stroke(list) ==
    IF worker_pc \in {"exited", "panicked"}
       THEN /\ aborted' = TRUE
            /\ UNCHANGED <<req_chan, sent_log>>
       ELSE /\ req_chan' = Append(req_chan, [id |-> Len(sent_log) + 1,
                                             strokes |-> <<list[Len(list)]>>])
            /\ sent_log' = Append(sent_log, <<list[Len(list)]>>)
            /\ UNCHANGED aborted

\* variant: the list is sent as it was before the completed stroke was pushed
classify_before_push(list) ==
    IF worker_pc \in {"exited", "panicked"}
       THEN /\ aborted' = TRUE
            /\ UNCHANGED <<req_chan, sent_log>>
       ELSE /\ req_chan' = Append(req_chan,
                  [id |-> Len(sent_log) + 1,
                   strokes |-> SubSeq(list, 1, Len(list) - 1)])
            /\ sent_log' = Append(sent_log, SubSeq(list, 1, Len(list) - 1))
            /\ UNCHANGED aborted

\* variant: a rendezvous channel, whose send waits for the worker to be
\* idle at its receive
classify_rendezvous(list) ==
    /\ worker_pc = "recv"
    /\ req_chan = <<>>
    /\ req_chan' = Append(req_chan, [id |-> Len(sent_log) + 1, strokes |-> list])
    /\ sent_log' = Append(sent_log, list)
    /\ UNCHANGED aborted

\* classify: send a clone of imp.strokes (here `list`) on the request
\* channel; the send of an unbounded mpsc channel never waits, and fails
\* only when the receiver is gone.
classify(list) ==
    IF worker_pc \in {"exited", "panicked"}
       THEN /\ aborted' = TRUE
            /\ UNCHANGED <<req_chan, sent_log>>
       ELSE /\ req_chan' = Append(req_chan, [id |-> Len(sent_log) + 1, strokes |-> list])
            /\ sent_log' = Append(sent_log, list)
            /\ UNCHANGED aborted

\* variant: the in-progress stroke is copied, not taken
drag_end_copy ==
    /\ WindowAlive
    /\ capture = "Capturing"
    /\ capture' = "Idle"
    /\ LET stroke == current_stroke
       IN /\ UNCHANGED current_stroke
          /\ strokes' = Append(strokes, stroke)
    /\ classify(strokes')
    /\ drag_ends' = drag_ends + 1
    /\ NoPaint
    /\ UNCHANGED <<surface, symbols, alive, res_chan, res_rx, worker, points,
                   recv_log, out_log, shown_log, last_result>>

\* connect_drag_end handler
drag_end ==
    /\ WindowAlive
    /\ capture = "Capturing"
    /\ capture' = "Idle"
    /\ LET stroke == current_stroke
       IN /\ current_stroke' = <<>>
          /\ strokes' = Append(strokes, stroke)
    /\ classify(strokes')
    /\ drag_ends' = drag_ends + 1
    /\ NoPaint
    /\ UNCHANGED <<surface, symbols, alive, res_chan, res_rx, worker, points,
                   recv_log, out_log, shown_log, last_result>>

\* tuple_windows over the points of one stroke
tuple_windows(stroke) ==
    [i \in 1..(IF Len(stroke) >= 2 THEN Len(stroke) - 1 ELSE 0) |->
        [op |-> "line", from |-> stroke[i], to |-> stroke[i + 1]]]

\* variant: segments only, no dot for a stroke of one point
StrokeOps_segments_only(stroke) == tuple_windows(stroke)

\* body of the draw func's loop for one stroke
StrokeOps(stroke) ==
    LET segments == tuple_windows(stroke)
        looped == Len(segments) > 0
    IN IF ~looped /\ Len(stroke) = 1
          THEN <<[op |-> "dot", at |-> Head(stroke)]>>
          ELSE segments

RECURSIVE DrawOps(_)
\* the draw func's loop over a list of strokes
DrawOps(list) ==
    IF list = <<>> THEN <<>> ELSE StrokeOps(Head(list)) \o DrawOps(Tail(list))

\* set_draw_func closure
draw ==
    /\ WindowAlive
    /\ painted' = IF surface
                     THEN DrawOps(strokes \o <<current_stroke>>)
                     ELSE <<>>
    /\ UNCHANGED <<drawing, surface, symbols, capture, lifecycle, req_chan,
                   res_chan, res_rx, worker, history>>

\* variant: the reset also empties the symbol list
clear_display ==
    /\ WindowAlive
    /\ create_surface
    /\ strokes' = <<>>
    /\ current_stroke' = <<>>
    /\ symbols' = <<>>
    /\ NoPaint
    /\ UNCHANGED <<capture, lifecycle, req_chan, res_chan, res_rx, worker,
                   history>>

\* variant: the reset also discards the requests still queued
clear_cancel ==
    /\ WindowAlive
    /\ create_surface
    /\ strokes' = <<>>
    /\ current_stroke' = <<>>
    /\ req_chan' = <<>>
    /\ NoPaint
    /\ UNCHANGED <<symbols, capture, lifecycle, res_chan, res_rx, worker,
                   history>>

\* clear (the reset button's callback)
clear ==
    /\ WindowAlive
    /\ create_surface
    /\ strokes' = <<>>
    /\ current_stroke' = <<>>
    /\ NoPaint
    /\ UNCHANGED <<symbols, capture, lifecycle, req_chan, res_chan,
                   res_rx, worker, history>>

(* --------------------------- worker thread ----------------------------- *)
\* variant: the newest message comes out first
next_newest_first(chan) ==
    [msg |-> chan[Len(chan)], rest |-> SubSeq(chan, 1, Len(chan) - 1)]

\* variant: the newest message comes out and the older ones are discarded
next_coalesced(chan) == [msg |-> chan[Len(chan)], rest |-> <<>>]

\* what a receive takes from a non-empty mpsc channel, and what it leaves:
\* the oldest message comes out first
next(chan) == [msg |-> Head(chan), rest |-> Tail(chan)]

\* variant: the worker is handed the window's own stroke list instead of
\* the copy that was sent
worker_recv_shared ==
    /\ ~aborted
    /\ worker_pc = "recv"
    /\ req_chan # <<>>
    /\ worker_req' = Some([id |-> next(req_chan).msg.id, strokes |-> strokes])
    /\ req_chan' = next(req_chan).rest
    /\ recv_log' = Append(recv_log, next(req_chan).msg.id)
    /\ worker_pc' = "classify"
    /\ NoPaint
    /\ UNCHANGED <<drawing, surface, symbols, capture, lifecycle,
                   res_chan, res_rx, classifications, points, drag_ends, sent_log,
                   out_log, shown_log, last_result>>

\* req_rx.iter().next() yields Some(strokes)
worker_recv ==
    /\ ~aborted
    /\ worker_pc = "recv"
    /\ req_chan # <<>>
    /\ worker_req' = Some(next(req_chan).msg)
    /\ req_chan' = next(req_chan).rest
    /\ recv_log' = Append(recv_log, next(req_chan).msg.id)
    /\ worker_pc' = "classify"
    /\ NoPaint
    /\ UNCHANGED <<drawing, surface, symbols, capture, lifecycle,
                   res_chan, res_rx, classifications, points, drag_ends, sent_log,
                   out_log, shown_log, last_result>>

\* variant: a non-waiting receive, which gives up as soon as nothing is queued
worker_exit_when_idle ==
    /\ ~aborted
    /\ worker_pc = "recv"
    /\ req_chan = <<>>
    /\ worker_pc' = "exited"
    /\ NoPaint
    /\ UNCHANGED <<drawing, surface, symbols, capture, lifecycle,
                   req_chan, res_chan, res_rx, worker_req, classifications,
                   history>>

\* req_rx.iter().next() yields None: the sender is gone and nothing is queued
worker_exit ==
    /\ ~aborted
    /\ worker_pc = "recv"
    /\ req_chan = <<>>
    /\ ~alive
    /\ worker_pc' = "exited"
    /\ NoPaint
    /\ UNCHANGED <<drawing, surface, symbols, capture, lifecycle,
                   req_chan, res_chan, res_rx, worker_req, classifications,
                   history>>

\* variant: a sample is built from any list of strokes
StrokeSample_any(list) == Some(list)

\* StrokeSample::new: None on an empty list of strokes
StrokeSample(list) == IF list = <<>> THEN None ELSE Some(list)

\* Option<Vec<Score>>::unwrap_or_default
unwrap_or_default(opt) == IF opt = None THEN <<>> ELSE opt.value

\* the 'classify block: `classifications` is None when no sample can be
\* built or the classifier answers None
worker_classify ==
    /\ ~aborted
    /\ worker_pc = "classify"
    /\ \E out \in ClassifierOutputs :
          LET sample == StrokeSample(worker_req.value.strokes)
              result == IF sample = None THEN None ELSE out
          IN classifications' =
                Some([id |-> worker_req.value.id, result |-> result])
    /\ worker_pc' = "send"
    /\ NoPaint
    /\ UNCHANGED <<drawing, surface, symbols, capture, lifecycle,
                   req_chan, res_chan, res_rx, worker_req, history>>

\* variant: the error of the send is ignored and the loop goes on
worker_send_ignore_error ==
    /\ ~aborted
    /\ worker_pc = "send"
    /\ IF res_rx = "dropped"
          THEN /\ worker_pc' = "recv"
               /\ UNCHANGED <<res_chan, out_log>>
          ELSE /\ Len(res_chan) < ResultCap
               /\ res_chan' = Append(res_chan,
                     [id |-> classifications.value.id,
                      scores |-> unwrap_or_default(classifications.value.result)])
               /\ out_log' = Append(out_log, classifications.value.id)
               /\ worker_pc' = "recv"
    /\ NoPaint
    /\ UNCHANGED <<drawing, surface, symbols, capture, lifecycle,
                   req_chan, res_rx, worker_req, classifications, points, drag_ends,
                   sent_log, recv_log, shown_log, last_result>>

\* res_tx.send_blocking(..).expect(..): waits while the channel is full,
\* panics when the receiver is gone
worker_send ==
    /\ ~aborted
    /\ worker_pc = "send"
    /\ IF res_rx = "dropped"
          THEN /\ worker_pc' = "panicked"
               /\ UNCHANGED <<res_chan, out_log>>
          ELSE /\ Len(res_chan) < ResultCap
               /\ res_chan' = Append(res_chan,
                     [id |-> classifications.value.id,
                      scores |-> unwrap_or_default(classifications.value.result)])
               /\ out_log' = Append(out_log, classifications.value.id)
               /\ worker_pc' = "recv"
    /\ NoPaint
    /\ UNCHANGED <<drawing, surface, symbols, capture, lifecycle,
                   req_chan, res_rx, worker_req, classifications, points, drag_ends,
                   sent_log, recv_log, shown_log, last_result>>

(* ---------------------------- result loop ------------------------------ *)
\* variant: every entry of the result is shown
Projection_all(scores) == [i \in 1..Len(scores) |-> scores[i].id]

\* classifications.iter().take(25) mapped to the ids appended to `symbols`
Projection(scores) == [i \in 1..Len(Take(scores, DisplayLimit)) |-> scores[i].id]

\* variant: the list store keeps what it held
remove_none(list) == list

\* symbols.remove_all()
remove_all(list) == <<>>

\* one iteration of `while let Ok(classifications) = res_rx.recv().await`
result_recv ==
    /\ ~aborted
    /\ res_rx = "awaiting"
    /\ res_chan # <<>>
    /\ LET received == Head(res_chan)
       IN /\ symbols' = remove_all(symbols) \o Projection(received.scores)
          /\ shown_log' = Append(shown_log, received.id)
          /\ last_result' = Some(received.scores)
    /\ res_chan' = Tail(res_chan)
    /\ NoPaint
    /\ UNCHANGED <<drawing, surface, capture, lifecycle, req_chan,
                   res_rx, worker, points, drag_ends, sent_log, recv_log, out_log>>

\* res_rx.recv() yields Err: res_tx is gone and the channel is empty
result_end ==
    /\ ~aborted
    /\ res_rx = "awaiting"
    /\ res_chan = <<>>
    /\ worker_pc \in {"exited", "panicked"}
    /\ res_rx' = "ended"
    /\ NoPaint
    /\ UNCHANGED <<drawing, surface, symbols, capture, lifecycle,
                   req_chan, res_chan, worker, history>>

(* ------------------------------ teardown ------------------------------- *)
\* the window is torn down: imp.sender (req_tx) is dropped
drop_sender ==
    /\ WindowAlive
    /\ alive' = FALSE
    /\ NoPaint
    /\ UNCHANGED <<drawing, surface, symbols, capture, aborted,
                   req_chan, res_chan, res_rx, worker, history>>

\* the future spawned on the main context is dropped with it, after the
\* window: res_rx is dropped while the worker may still hold res_tx
drop_receiver ==
    /\ ~alive
    /\ ~aborted
    /\ res_rx = "awaiting"
    /\ res_rx' = "dropped"
    /\ NoPaint
    /\ UNCHANGED <<drawing, surface, symbols, capture, lifecycle,
                   req_chan, res_chan, worker, history>>

(* --------------------------- specification ----------------------------- *)
Next ==
    \/ resize
    \/ \E p \in AnchorSet : drag_begin(p)
    \/ \E d \in DeltaSet : drag_update(d)
    \/ drag_end
    \/ draw
    \/ clear
    \/ worker_recv
    \/ worker_exit
    \/ worker_classify
    \/ worker_send
    \/ result_recv
    \/ result_end
    \/ drop_sender
    \/ drop_receiver

Spec == Init /\ [][Next]_vars

\* The worker is a thread of its own and the result loop is a task of the
\* main loop that is resumed whenever the result channel is ready: neither
\* is starved.
Fairness ==
    /\ WF_vars(worker_recv)
    /\ WF_vars(worker_exit)
    /\ WF_vars(worker_classify)
    /\ WF_vars(worker_send)
    /\ WF_vars(result_recv)
    /\ WF_vars(result_end)

FairSpec == Spec /\ Fairness

\* The worker loop taken with its input: any Vec<Stroke> may arrive on the
\* request channel, the empty one included.
RequestInputs == {<<>>, <<<<Point(10, 10)>>>>, <<<<Point(0, 0), Point(3, 3)>>>>}

QueuedInputs ==
    {<<>>} \cup {<<a>> : a \in RequestInputs}
           \cup {<<a, b>> : a \in RequestInputs, b \in RequestInputs}

\* the state after construction, with the requests of `queued` already sent
WorkerInit ==
    \E queued \in QueuedInputs :
        /\ strokes = <<>>
        /\ current_stroke = <<>>
        /\ surface = FALSE
        /\ symbols = iter_symbols
        /\ painted = <<>>
        /\ capture = "Idle"
        /\ alive = TRUE
        /\ aborted = FALSE
        /\ req_chan = [i \in 1..Len(queued) |-> [id |-> i, strokes |-> queued[i]]]
        /\ res_chan = <<>>
        /\ res_rx = "awaiting"
        /\ worker_pc = "recv"
        /\ worker_req = None
        /\ classifications = None
        /\ points = 0
        /\ drag_ends = Len(queued)
        /\ sent_log = queued
        /\ recv_log = <<>>
        /\ out_log = <<>>
        /\ shown_log = <<>>
        /\ last_result = None

WorkerSpec == WorkerInit /\ [][Next]_vars

(* ------------------------------ claims --------------------------------- *)
\* the sequence 1, 2, ..., n
Iota(n) == [i \in 1..n |-> i]

Range(s) == {s[i] : i \in 1..Len(s)}

\* C1: requests are received by the worker, and their results sent and
\* consumed by the result loop, in submission order: the k-th request the
\* worker receives, the k-th result it sends and the k-th result the result
\* loop consumes all belong to the k-th request submitted.
C1_SubmissionOrder ==
    /\ recv_log = Iota(Len(recv_log))
    /\ out_log = Iota(Len(out_log))
    /\ shown_log = Iota(Len(shown_log))
    /\ Len(shown_log) <= Len(out_log)
    /\ Len(out_log) <= Len(recv_log)
    /\ Len(recv_log) <= Len(sent_log)

\* two requests were submitted and the results of both have been consumed
C1_Witness ==
    /\ Len(shown_log) = 2
    /\ Len(sent_log) = 2

\* C2: every drag-end submits exactly one request, carrying the whole of
\* `strokes` as it is right after the completed stroke was appended; no
\* other step submits, so the requests submitted are as many as the
\* drag-ends handled.
C2_OneRequestPerDragEnd ==
    [][/\ Len(sent_log') = drag_ends'
       /\ IF drag_ends' = drag_ends + 1
             THEN /\ strokes' = Append(strokes, current_stroke)
                  /\ sent_log' = Append(sent_log, strokes')
                  /\ Len(req_chan') = Len(req_chan) + 1
                  /\ req_chan'[Len(req_chan')].strokes = strokes'
                  /\ SubSeq(req_chan', 1, Len(req_chan)) = req_chan
             ELSE /\ drag_ends' = drag_ends
                  /\ sent_log' = sent_log
                  /\ Len(req_chan') <= Len(req_chan)]_vars

\* the second drag-end has submitted a request that carries both strokes
C2_Witness ==
    /\ drag_ends = 2
    /\ Len(sent_log) = 2
    /\ Len(sent_log[2]) = 2
    /\ sent_log[2] = strokes
    /\ Len(sent_log[2][2]) >= 2


\* C3: every stroke of `strokes` has at least one point.
C3_NoEmptyFinalizedStroke ==
    \A i \in 1..Len(strokes) : Len(strokes[i]) >= 1

\* C4 as stated: from construction onward the display list is no longer
\* than min(25, length of the result consumed last); before any result has
\* been consumed only the limit of 25 is required here.
C4_DisplayBoundedFromConstruction ==
    Len(symbols) <= Min(DisplayLimit,
                        IF last_result = None THEN DisplayLimit
                                              ELSE Len(last_result.value))

\* C4: once the result loop has consumed a result, the display list is no
\* longer than min(25, length of the result consumed last).
C4_DisplayBoundedAfterResult ==
    last_result # None =>
        Len(symbols) <= Min(DisplayLimit, Len(last_result.value))

\* a result of more than 25 entries has been consumed and 25 are shown
C4_Witness ==
    /\ last_result # None
    /\ Len(last_result.value) > DisplayLimit
    /\ Len(symbols) = DisplayLimit

\* C5: after the result loop has consumed a ranked result R the display
\* list is the ids of the first min(25, len(R)) entries of R, in R's order,
\* and nothing else.
C5_DisplayIsPrefixOfResult ==
    last_result # None =>
        LET R == last_result.value
        IN /\ Len(symbols) = (IF Len(R) < DisplayLimit THEN Len(R) ELSE DisplayLimit)
           /\ \A i \in 1..Len(symbols) : symbols[i] = R[i].id

\* the second result consumed is [1, 2] and the display list is exactly that
C5_Witness ==
    /\ Len(shown_log) = 2
    /\ last_result # None
    /\ Len(last_result.value) = 2
    /\ symbols = <<1, 2>>

\* C6: while the window is alive every input handler can run at once,
\* whatever the worker and the two channels are doing (the guards left
\* are the gesture's own state and the bounds of the model).
C6_InputNeverBlocks ==
    WindowAlive =>
        /\ ENABLED clear
        /\ (capture = "Idle" /\ drag_ends < MaxDragEnds /\ points < MaxPoints)
              => \A p \in AnchorSet : ENABLED drag_begin(p)
        /\ (capture = "Capturing" /\ points < MaxPoints)
              => \A d \in DeltaSet : ENABLED drag_update(d)
        /\ capture = "Capturing" => ENABLED drag_end

\* a drag-end was handled while the worker was busy with the first request
\* and the second is queued behind it; a reset is still possible
C6_Witness ==
    /\ WindowAlive
    /\ drag_ends = 2
    /\ worker_pc = "classify"
    /\ worker_req.value.id = 1
    /\ Len(req_chan) = 1
    /\ ENABLED clear

\* request k was submitted and its result has not been consumed yet
InFlight(k) == k <= Len(sent_log) /\ k \notin Range(shown_log)

\* the result consumed last is the one of request k
ShownLast(k) == shown_log # <<>> /\ shown_log[Len(shown_log)] = k

\* C7: the worker sends at most one result per request and never one for a
\* request it did not receive; every request submitted is eventually
\* answered and its result consumed, and a worker waiting to send
\* eventually gets on, unless the window goes away first.
C7_EveryRequestServed ==
    /\ [](\A i, j \in 1..Len(out_log) : out_log[i] = out_log[j] => i = j)
    /\ [](Range(out_log) \subseteq Range(recv_log))
    /\ \A k \in 1..MaxDragEnds :
          (Len(sent_log) >= k) ~> (k \in Range(shown_log) \/ ~WindowAlive)
    /\ (worker_pc = "send") ~> (worker_pc # "send" \/ ~WindowAlive)

\* every request submitted has been answered and consumed, window alive
C7_Witness ==
    /\ WindowAlive
    /\ Len(sent_log) = MaxDragEnds
    /\ shown_log = Iota(MaxDragEnds)
    /\ req_chan = <<>>
    /\ res_chan = <<>>
    /\ worker_pc = "recv"

\* C8: a reset empties `strokes` and `current_stroke` and leaves the rest
\* of the pipeline as it was: no request submitted or removed, result
\* channel, worker and display list unchanged.
C8_ResetFrame ==
    [][clear =>
         /\ strokes' = <<>>
         /\ current_stroke' = <<>>
         /\ UNCHANGED <<req_chan, res_chan, res_rx, worker_pc, worker_req,
                        classifications, symbols, sent_log, recv_log, out_log,
                        shown_log, last_result, drag_ends>>]_vars

\* the drawing is empty after a reset taken with one request queued, one
\* being classified and the display list still the catalogue
C8_Witness ==
    /\ strokes = <<>>
    /\ current_stroke = <<>>
    /\ surface
    /\ Len(req_chan) = 1
    /\ worker_pc = "classify"
    /\ symbols = iter_symbols

\* C9: a reset leaves the drawing empty at once; a request in flight keeps
\* the stroke list it was submitted with, and its result is still consumed
\* later and becomes the display list (unless the window goes away first).
C9_ResetDoesNotCancel ==
    /\ [][clear => strokes' = <<>> /\ current_stroke' = <<>>]_vars
    /\ [](\A i \in 1..Len(req_chan) :
            /\ req_chan[i].strokes = sent_log[req_chan[i].id]
            /\ req_chan[i].strokes # <<>>)
    /\ [](worker_pc = "classify" =>
            worker_req.value.strokes = sent_log[worker_req.value.id])
    /\ \A k \in 1..MaxDragEnds :
          (InFlight(k) /\ strokes = <<>> /\ current_stroke = <<>> /\ WindowAlive)
            ~> \/ /\ ShownLast(k)
                  /\ symbols = Projection(last_result.value)
               \/ ~WindowAlive

\* the drawing has been reset while request 2 was in flight: its result,
\* computed over the two strokes it was submitted with, waits in the result
\* channel to replace the display list
C9_Witness ==
    /\ WindowAlive
    /\ strokes = <<>>
    /\ current_stroke = <<>>
    /\ InFlight(2)
    /\ Len(sent_log[2]) = 2
    /\ res_chan # <<>>
    /\ res_chan[1].id = 2
    /\ Len(res_chan[1].scores) = 2
    /\ Len(symbols) = DisplayLimit

\* C10: the worker leaves its loop only when the sender is gone and
\* nothing is queued; once out it stays out and neither receives nor
\* sends again; and a worker waiting at its receive with the sender gone
\* and nothing queued does leave.
C10_WorkerTermination ==
    /\ [][worker_pc = "exited" =>
            (worker_pc' = "exited" /\ UNCHANGED <<recv_log, out_log, req_chan>>)]_vars
    /\ [][(worker_pc # "exited" /\ worker_pc' = "exited") =>
            (~alive /\ req_chan = <<>> /\ worker_pc = "recv")]_vars
    /\ (~alive /\ req_chan = <<>> /\ worker_pc = "recv") ~> (worker_pc = "exited")

\* the worker has served two requests and then left its loop
C10_Witness ==
    /\ worker_pc = "exited"
    /\ ~alive
    /\ Len(out_log) = 2
    /\ req_chan = <<>>

\* C11: a request with no strokes and a classifier that answers None both
\* leave `classifications` None; the worker is never stuck at, nor stopped
\* by, the classification; what it then sends is the empty list, after
\* which it is back at its receive; and consuming an empty result leaves
\* the display list empty.
C11_EmptyInputAndAbstention ==
    /\ [](worker_pc = "send" =>
            /\ sent_log[classifications.value.id] = <<>>
                  => classifications.value.result = None
            /\ classifications.value.result \in ClassifierOutputs)
    /\ []((worker_pc = "classify" /\ ~aborted) => ENABLED worker_classify)
    /\ [](worker_pc = "panicked" => res_rx = "dropped")
    /\ [][(worker_pc = "send" /\ classifications.value.result = None
                              /\ out_log' # out_log)
            => /\ res_chan'[Len(res_chan')].scores = <<>>
               /\ res_chan'[Len(res_chan')].id = classifications.value.id
               /\ worker_pc' = "recv"]_vars
    /\ [][(res_chan # <<>> /\ Head(res_chan).scores = <<>>
                           /\ shown_log' # shown_log)
            => symbols' = <<>>]_vars

\* the result of a request with no strokes emptied the display list, and the
\* worker went on to the next request, on which the classifier abstained
C11_Witness ==
    /\ shown_log = <<1>>
    /\ sent_log[1] = <<>>
    /\ symbols = <<>>
    /\ worker_pc = "send"
    /\ classifications.value.id = 2
    /\ sent_log[2] # <<>>
    /\ classifications.value.result = None

\* the offset of point q from point p
Offset(p, q) == Point(q.x - p.x, q.y - p.y)

\* every point of the stroke after the first lies at one of the delivered
\* offsets from the first
AnchorRelative(stroke) ==
    \A i \in 2..Len(stroke) : Offset(stroke[1], stroke[i]) \in DeltaSet

\* C12: a drag-update with delta D appends anchor + D, the anchor being the
\* first point of the in-progress stroke, whatever updates came before; so
\* every recorded point lies at a delivered delta from its stroke's anchor.
C12_UpdateIsAnchorPlusDelta ==
    /\ [][(capture = "Capturing" /\ points' = points + 1) =>
            /\ Len(current_stroke') = Len(current_stroke) + 1
            /\ SubSeq(current_stroke', 1, Len(current_stroke)) = current_stroke
            /\ Offset(current_stroke[1], current_stroke'[Len(current_stroke')])
                  \in DeltaSet]_vars
    /\ [](AnchorRelative(current_stroke))
    /\ [](\A i \in 1..Len(strokes) : AnchorRelative(strokes[i]))

\* anchor (10,10), then updates (3,3) and (5,5): (13,13) and (15,15)
C12_Witness ==
    /\ capture = "Capturing"
    /\ current_stroke = <<Point(10, 10), Point(13, 13), Point(15, 15)>>

\* a step of the worker thread
WorkerStep == worker_recv \/ worker_exit \/ worker_classify \/ worker_send

\* C13: the stroke list of a request is `strokes` as it was right after the
\* drag-end that sent it and never changes afterwards, whether the request
\* is queued or held by the worker; the k-th request the worker receives is
\* the k-th one sent; and no step of the worker changes `strokes` or
\* `current_stroke`.
C13_SnapshotsAreImmutable ==
    /\ [][drag_ends' = drag_ends + 1 =>
            sent_log' = Append(sent_log, strokes')]_vars
    /\ [][SubSeq(sent_log', 1, Len(sent_log)) = sent_log]_vars
    /\ [](\A i \in 1..Len(req_chan) :
            req_chan[i].strokes = sent_log[req_chan[i].id])
    /\ [](worker_req # None =>
            /\ worker_req.value.strokes = sent_log[worker_req.value.id]
            /\ worker_req.value.id = Len(recv_log))
    /\ [][WorkerStep => UNCHANGED <<strokes, current_stroke>>]_vars

\* the worker is classifying the first request, made of one stroke, while
\* the window has since been reset and holds another stroke, whose request
\* waits in the queue
C13_Witness ==
    /\ worker_pc = "classify"
    /\ worker_req.value.id = 1
    /\ worker_req.value.strokes = sent_log[1]
    /\ Len(req_chan) = 1
    /\ req_chan[1].id = 2
    /\ Len(sent_log[2]) = 1
    /\ sent_log[2] # sent_log[1]
    /\ capture = "Idle"
    /\ strokes = <<>>

\* the ids of the results waiting in the result channel
Waiting == [i \in 1..Len(res_chan) |-> res_chan[i].id]

\* C14: the result channel never holds more than one result; with the slot
\* taken the worker's send cannot proceed, and a worker at its send takes
\* no request; the channel only ever gains the result sent or loses the
\* result consumed, so the results sent are those consumed followed by the
\* one waiting, in order; and every result sent is eventually consumed
\* unless the result loop is torn down or the process aborts first.
C14_SingleSlotMailbox ==
    /\ [](Len(res_chan) <= 1)
    /\ []((worker_pc = "send" /\ Len(res_chan) = 1 /\ res_rx # "dropped")
            => ~ENABLED worker_send)
    /\ [](worker_pc = "send" => ~ENABLED worker_recv)
    /\ [](out_log = shown_log \o Waiting)
    /\ [][\/ res_chan' = res_chan
          \/ /\ res_chan # <<>>
             /\ res_chan' = Tail(res_chan)
             /\ shown_log' = Append(shown_log, Head(res_chan).id)
          \/ /\ worker_pc = "send"
             /\ Len(res_chan') = Len(res_chan) + 1
             /\ SubSeq(res_chan', 1, Len(res_chan)) = res_chan
             /\ res_chan'[Len(res_chan')].id = classifications.value.id]_vars
    /\ \A k \in 1..MaxDragEnds :
          (k \in Range(out_log))
             ~> (k \in Range(shown_log) \/ res_rx = "dropped" \/ aborted)

\* the worker waits at its send behind an unconsumed result while the
\* window is alive
C14_Witness ==
    /\ WindowAlive
    /\ res_rx = "awaiting"
    /\ worker_pc = "send"
    /\ Len(res_chan) = 1
    /\ res_chan[1].id = 1
    /\ classifications.value.id = 2

\* C15: the in-progress stroke is empty when no drag is active and
\* non-empty while one is.
C15_CurrentStrokeTracksDrag ==
    /\ capture = "Idle" => current_stroke = <<>>
    /\ capture = "Capturing" =>
          /\ current_stroke # <<>>
          /\ current_stroke[1] \in AnchorSet

\* C16: a drag-end appends the in-progress stroke as it is to `strokes`,
\* keeps the strokes already there, and leaves the in-progress stroke empty
\* and the gesture over; a stroke of one point is appended like any other.
C16_DragEndMovesStroke ==
    [][drag_ends' = drag_ends + 1 =>
         /\ capture = "Capturing"
         /\ Len(strokes') = Len(strokes) + 1
         /\ strokes'[Len(strokes')] = current_stroke
         /\ \A i \in 1..Len(strokes) : strokes'[i] = strokes[i]
         /\ current_stroke' = <<>>
         /\ capture' = "Idle"]_vars

\* a drag-begin at (10,10) ended at once, then a stroke of three points
C16_Witness ==
    /\ capture = "Idle"
    /\ current_stroke = <<>>
    /\ Len(strokes) = 2
    /\ strokes[1] = <<Point(10, 10)>>
    /\ Len(strokes[2]) = 3

\* C17: with the result loop torn down the worker's send does not wait, and
\* the only way on from it is the panic, which sends nothing; a worker that
\* has panicked stays so and neither receives nor sends again, whatever is
\* still queued.
C17_SendToDroppedReceiverIsFatal ==
    /\ []((worker_pc = "send" /\ res_rx = "dropped" /\ ~aborted)
            => ENABLED worker_send)
    /\ [][(worker_pc = "send" /\ res_rx = "dropped" /\ worker_pc' # "send")
            => /\ worker_pc' = "panicked"
               /\ UNCHANGED <<res_chan, out_log, recv_log, req_chan>>]_vars
    /\ [][worker_pc = "panicked"
            => /\ worker_pc' = "panicked"
               /\ UNCHANGED <<req_chan, res_chan, recv_log, out_log,
                              worker_req, classifications>>]_vars
    /\ [](worker_pc = "panicked" => res_rx = "dropped")

\* the worker has panicked at the send of the first result while the second
\* request is still queued
C17_Witness ==
    /\ worker_pc = "panicked"
    /\ res_rx = "dropped"
    /\ classifications.value.id = 1
    /\ Len(req_chan) = 1
    /\ out_log = <<>>

\* what a stroke is to be painted as: n-1 segments joining consecutive
\* points for n >= 2 points, one dot for one point, nothing for none
Painting(stroke) ==
    IF Len(stroke) >= 2
       THEN [i \in 1..(Len(stroke) - 1) |->
                [op |-> "line", from |-> stroke[i], to |-> stroke[i + 1]]]
       ELSE IF Len(stroke) = 1
               THEN <<[op |-> "dot", at |-> stroke[1]]>>
               ELSE <<>>

RECURSIVE Paintings(_)
\* the paintings of the strokes of a list, in order
Paintings(list) ==
    IF list = <<>> THEN <<>>
    ELSE Paintings(SubSeq(list, 1, Len(list) - 1)) \o Painting(list[Len(list)])

\* C18: a redraw onto the window's surface issues, for the strokes of
\* `strokes` in order and then the in-progress stroke, the segments or the
\* dot of each and nothing else; it changes neither `strokes` nor
\* `current_stroke`; with both empty it issues nothing; and no other step
\* issues a draw operation.
C18_RendererIsPure ==
    /\ [][draw =>
            /\ UNCHANGED <<strokes, current_stroke>>
            /\ surface => painted' = Paintings(strokes \o <<current_stroke>>)
            /\ (strokes = <<>> /\ current_stroke = <<>>) => painted' = <<>>]_vars
    /\ [][painted' # <<>> => draw]_vars

\* a redraw during a drag has painted the dot of a finalized one-point
\* stroke and the two segments of the in-progress stroke
C18_Witness ==
    /\ capture = "Capturing"
    /\ Len(strokes) = 1
    /\ Len(strokes[1]) = 1
    /\ Len(current_stroke) = 3
    /\ Len(painted) = 3
    /\ painted[1].op = "dot"
    /\ painted[2].op = "line"
    /\ painted[3].to = current_stroke[3]

\* C19: every request ever sent, queued or held by the worker carries at
\* least one stroke, so a sample can be built from it and a classification
\* the worker leaves as None is the classifier's own answer.
C19_RequestsAreNonEmpty ==
    /\ \A k \in 1..Len(sent_log) : Len(sent_log[k]) >= 1
    /\ \A i \in 1..Len(req_chan) : Len(req_chan[i].strokes) >= 1
    /\ worker_req # None =>
          /\ Len(worker_req.value.strokes) >= 1
          /\ StrokeSample(worker_req.value.strokes) # None

\* the drawing was reset after the first drag-end, yet the request the
\* worker holds and the one sent after the reset carry one stroke each
C19_Witness ==
    /\ strokes = <<>>
    /\ worker_pc = "classify"
    /\ Len(worker_req.value.strokes) = 1
    /\ Len(req_chan) = 1
    /\ Len(req_chan[1].strokes) = 1

\* n requests have been sent, no drag is active and the drawing is still
\* the one the last request was sent with
Quiet(n) ==
    /\ WindowAlive
    /\ capture = "Idle"
    /\ Len(sent_log) = n
    /\ strokes = sent_log[n]

\* nothing is queued or waiting, the worker is idle and the display list
\* shows the first 25 ids of the result of request n
Settled(n) ==
    /\ req_chan = <<>>
    /\ res_chan = <<>>
    /\ worker_pc = "recv"
    /\ ShownLast(n)
    /\ last_result # None
    /\ Len(symbols) = Min(DisplayLimit, Len(last_result.value))
    /\ \A i \in 1..Len(symbols) : symbols[i] = last_result.value[i].id

\* C20: if from some point on the window stays alive with no drag and with
\* the drawing its last request was sent with, then from some point on
\* nothing is queued or waiting and the display list shows the result of
\* that last request; and a result consumed always belongs to a later
\* request than every result consumed before it.
C20_QuiescentConsistency ==
    /\ \A n \in 1..MaxDragEnds : (<>[]Quiet(n)) => (<>[]Settled(n))
    /\ [][Len(shown_log') > Len(shown_log) =>
            \A i \in 1..Len(shown_log) :
                shown_log[i] < shown_log'[Len(shown_log')]]_vars

\* two strokes drawn, both requests answered, the display list shows the
\* result of the second and the drawing is still those two strokes
C20_Witness ==
    /\ Quiet(2)
    /\ Settled(2)
    /\ Len(strokes) = 2
    /\ symbols = <<1, 2>>

====
